---- MODULE Spec2Model ----
(***************************************************************************)
(* TinKV storage engine (Bitcask model): data files of appended records,   *)
(* hint files, the in-memory keydir, set / remove / get / compact, clean   *)
(* shutdown, abrupt termination and recovery.                              *)
(*                                                                         *)
(* Bytes are small naturals, keys and values are byte sequences.  A data   *)
(* file on disk is the sequence of its complete records followed by `torn` *)
(* bytes of an incomplete record; a record occupies EncodedSize bytes, so  *)
(* offsets and sizes are the byte quantities the code computes.            *)
(***************************************************************************)
EXTENDS Integers, Sequences, FiniteSets, TLC

(***************************************************************************)
(* Bounds of the model.                                                    *)
(***************************************************************************)
\* largest segment id the model lets the store allocate
MaxFileId == 4
\* largest number of acknowledged writes (set, remove) in one behaviour
MaxWrites == 2
\* config.max_key_size used by the modelled store
MaxKeySize == 2
\* config.max_value_size used by the modelled store
MaxValueSize == 2
\* config.max_data_file_size used by the modelled store
MaxDataFileSize == 38
\* largest number of arguments in a request to the server
MaxArgs == 2

(***************************************************************************)
(* Program constants.                                                      *)
(***************************************************************************)
\* b"%TINKV_REMOVE_TOMESTOME%" as bytes
REMOVE_TOMESTONE ==
    << 37, 84, 73, 78, 75, 86, 95, 82, 69, 77, 79, 86, 69, 95,
       84, 79, 77, 69, 83, 84, 79, 77, 69, 37 >>

\* bincode: u64 length prefix of a Vec<u8>
LenPrefix == 8
\* bincode: u128 timestamp
TimestampBytes == 16
\* bincode: u32 checksum
ChecksumBytes == 4

(***************************************************************************)
(* Inputs.                                                                 *)
(***************************************************************************)
Fill(n, b) == [i \in 1..n |-> b]

\* a one-byte key, a key of exactly max_key_size bytes, and one byte more
KeyA == << 2 >>
KeyMax == Fill(MaxKeySize, 1)
KeyBig == Fill(MaxKeySize + 1, 1)
ValidKeys == {KeyA, KeyMax}
Keys == ValidKeys \cup {KeyBig}

\* a one-byte value, a value of exactly max_value_size bytes, one byte more.
\* The reserved tombstone constant is not a value users store (spec 3, 6).
ValA == << 5 >>
ValMax == Fill(MaxValueSize, 6)
ValBig == Fill(MaxValueSize + 1, 6)
ValidValues == {ValA, ValMax}
Values == ValidValues \cup {ValBig}

FileIds == 1..(MaxFileId + 1)

(***************************************************************************)
(* Records and their encoding.                                             *)
(***************************************************************************)
RECURSIVE Fold32(_, _)
Fold32(bytes, h) ==
    IF bytes = << >> THEN h
    ELSE Fold32(Tail(bytes), (h * 31 + Head(bytes) + 1) % 65536)

\* util::checksum, a digest of the bytes (CRC-32 in the code, folded to 16
\* bits here to stay within TLC's 32-bit integers)
checksum(bytes) == Fold32(bytes, 7)

\* InnerEntry::fresh_checksum: digest of key ++ value
fresh_checksum(key, value) == checksum(key \o value)

\* InnerEntry::new
InnerEntry(key, value) ==
    [key |-> key, value |-> value, checksum |-> fresh_checksum(key, value)]

\* InnerEntry::is_valid
is_valid(rec) == rec.checksum = fresh_checksum(rec.key, rec.value)

\* bincode::serialize(&inner).len()
EncodedSize(rec) ==
    LenPrefix + Len(rec.key) + LenPrefix + Len(rec.value)
        + TimestampBytes + ChecksumBytes

\* bincode::serialize of a hint Entry {key, offset: u64, size: u64}
HintEncodedSize(h) == LenPrefix + Len(h.key) + 8 + 8

RECURSIVE SumSizes(_, _)
SumSizes(recs, n) ==
    IF n = 0 THEN 0 ELSE SumSizes(recs, n - 1) + EncodedSize(recs[n])

\* byte offset at which record i of a file starts
OffsetOf(recs, i) == SumSizes(recs, i - 1)

NoFile == [exists |-> FALSE, recs |-> << >>, torn |-> 0]
EmptyFile == [exists |-> TRUE, recs |-> << >>, torn |-> 0]

\* file.metadata().len()
FileLen(f) == SumSizes(f.recs, Len(f.recs)) + f.torn

NoHint == [exists |-> FALSE, ents |-> << >>, torn |-> 0]
EmptyHint == [exists |-> TRUE, ents |-> << >>, torn |-> 0]

(***************************************************************************)
(* Keydir, stats, results.                                                 *)
(***************************************************************************)
NoEntry == [segment_id |-> 0, offset |-> 0, size |-> 0]

\* KeyDirEntry::new
KeyDirEntry(segment_id, offset, size) ==
    [segment_id |-> segment_id, offset |-> offset, size |-> size]

EmptyKeydir == [k \in ValidKeys |-> NoEntry]

KeydirKeys(kd) == {k \in ValidKeys : kd[k] # NoEntry}

\* Stats::default
StatsDefault ==
    [size_of_stale_entries |-> 0, total_stale_entries |-> 0,
     total_active_entries |-> 0, total_data_files |-> 0,
     size_of_all_data_files |-> 0]

None == [tag |-> "None", val |-> << >>]
Some(v) == [tag |-> "Some", val |-> v]
Err(e) == [tag |-> e, val |-> << >>]

\* lexicographic order of Vec<u8> (the order of BTreeMap<Vec<u8>, _>)
RECURSIVE LexLess(_, _)
LexLess(a, b) ==
    IF b = << >> THEN FALSE
    ELSE IF a = << >> THEN TRUE
    ELSE IF Head(a) # Head(b) THEN Head(a) < Head(b)
    ELSE LexLess(Tail(a), Tail(b))

\* the keys of S ordered by length first (shorter keys before longer ones)
RECURSIVE SortedKeysByLength(_)
SortedKeysByLength(S) ==
    IF S = {} THEN << >>
    ELSE LET m == CHOOSE x \in S : \A y \in S \ {x} :
                     \/ Len(x) < Len(y)
                     \/ Len(x) = Len(y) /\ LexLess(x, y)
         IN << m >> \o SortedKeysByLength(S \ {m})

\* the keys of S as BTreeMap iteration yields them
RECURSIVE SortedKeys(_)
SortedKeys(S) ==
    IF S = {} THEN << >>
    ELSE LET m == CHOOSE x \in S : \A y \in S \ {x} : LexLess(x, y)
         IN << m >> \o SortedKeys(S \ {m})

SetMax(S) == CHOOSE x \in S : \A y \in S : y <= x

(***************************************************************************)
(* State.                                                                  *)
(***************************************************************************)
VARIABLES
    dfile,       \* disk: segment id -> data file (<id>.tinkv.data)
    hfile,       \* disk: segment id -> hint file (<id>.tinkv.hint)
    synced,      \* number of records of the active file that are fsynced
    st,          \* "open", "closed" (dropped) or "crashed"
    data_files,  \* Store.data_files: the registered segment ids
    active,      \* Store.active_data_file: id, cached size, writer offset
    writers,     \* the segment ids of the store's DataFile values that are
                 \* open for writing (writeable = true) between operations
    keydir,      \* Store.keydir
    stats,       \* Store.stats
    config,      \* Store.config
    written,     \* history: the number of records set and remove appended
    latest,      \* history: key -> value of its latest acknowledged write
    prefixes,    \* history: the mapping after every prefix of the writes
                 \* (both start afresh from what a recovery brought back)
    closedView,  \* history: what get/keys answered when the store was dropped
    crashes,     \* history: "none", or the worst abrupt termination so far:
                 \* "between" two operations or inside "compact"
    created,     \* history: the largest id a data file was ever created with
                 \* (0 in the specifications that do not record it)
    target,      \* history: the compaction target id of the latest compact()
                 \* call on this store, 0 before the first one (-1 in the
                 \* specifications that do not record it)
    sinceSync,   \* history: whether it is recorded, and if so the mappings
                 \* held from the latest sync of this store on (none before
                 \* the first sync and after an abrupt termination)
    loose,       \* the data files that were sealed while records of theirs
                 \* were covered by no fsync
    last         \* the last operation and what it returned

vars == << dfile, hfile, synced, st, data_files, active, writers, keydir,
           stats, config, written, latest, prefixes, closedView, crashes,
           created, target, sinceSync, loose, last >>

storeVars == << data_files, active, writers, keydir, stats, config >>
diskVars == << dfile, hfile, synced >>
histVars == << written, latest, prefixes, sinceSync, loose >>
ghostVars == << written, latest, prefixes, closedView, crashes, created,
               target, sinceSync, loose >>

\* the largest id a data file was created with, once the files of dNew that
\* dOld did not hold are created (c = 0: the history is not recorded)
CreatedAfter(c, dOld, dNew) ==
    IF c = 0 THEN 0
    ELSE SetMax({c} \cup {i \in FileIds : ~dOld[i].exists /\ dNew[i].exists})

\* the compaction target on record once compact() was called with target c,
\* or (c = 0) once the store is gone
TargetAfter(t, c) == IF t = -1 THEN -1 ELSE c

\* the record of synced mappings once a sync returned Ok with the mapping m
SyncedAt(s, m) == IF s.on THEN [s EXCEPT !.maps = {m}] ELSE s

\* the record of synced mappings once a write was acknowledged that made
\* the mapping m
AckedAfter(s, m) == IF s.maps = {} THEN s ELSE [s EXCEPT !.maps = @ \cup {m}]

\* Drop for DataFile, of the writable file id: sync(), whose error is
\* logged and ignored; `pending` says that records of the file are covered
\* by no fsync yet, `ok` that the sync went through
DropSync(ls, id, pending, ok) ==
    IF pending /\ ~ok THEN ls \cup {id} ELSE ls \ {id}

\* Config with the model's limits and the given sync mode
Config(sync) ==
    [max_data_file_size |-> MaxDataFileSize, max_key_size |-> MaxKeySize,
     max_value_size |-> MaxValueSize, sync |-> sync]

NoMapping == [k \in ValidKeys |-> None]
NoView == [view |-> NoMapping, keys |-> << >>, compacted |-> FALSE]

(***************************************************************************)
(* Reading.                                                                *)
(***************************************************************************)
\* DataFile::read: decode one record at `offset`; anything but the start of
\* a complete record does not decode
ReadAt(f, offset) ==
    IF \E i \in 1..Len(f.recs) : OffsetOf(f.recs, i) = offset
    THEN LET i == CHOOSE j \in 1..Len(f.recs) : OffsetOf(f.recs, j) = offset
         IN [ok |-> TRUE, rec |-> f.recs[i]]
    ELSE [ok |-> FALSE, rec |-> InnerEntry(<< >>, << >>)]

\* Store::get against a keydir, a registered set and a disk
GetIn(kd, regs, df, key) ==
    IF key \notin ValidKeys \/ kd[key] = NoEntry THEN None
    ELSE IF kd[key].segment_id \notin regs THEN Err("Panic")
    ELSE LET r == ReadAt(df[kd[key].segment_id], kd[key].offset)
         IN IF ~r.ok THEN Err("Codec")
            ELSE IF ~is_valid(r.rec) THEN Err("DataEntryCorrupted")
            ELSE Some(r.rec.value)

\* Store::get
get(key) == GetIn(keydir, data_files, dfile, key)

\* Store::keys
keys == SortedKeys(KeydirKeys(keydir))

\* the answers of get for every key
View(kd, regs, df) == [k \in ValidKeys |-> GetIn(kd, regs, df, k)]

(***************************************************************************)
(* Recovery.                                                               *)
(***************************************************************************)
\* TinkvError::DataEntryCorrupted { file_id, key, offset }
Corrupted(file_id, key, offset) ==
    [file_id |-> file_id, key |-> key, offset |-> offset]

NoError == Corrupted(0, << >>, 0)

\* Store::build_keydir_from_data_file without the checksum test
RECURSIVE ScanDataUnchecked(_, _, _, _)
ScanDataUnchecked(recs, i, id, acc) ==
    IF i > Len(recs) \/ acc.err # "" THEN acc
    ELSE LET rec == recs[i]
             off == OffsetOf(recs, i)
             sz == EncodedSize(rec)
             old == acc.kd[rec.key]
         IN IF rec.value = REMOVE_TOMESTONE
            THEN ScanDataUnchecked(recs, i + 1, id,
                   [acc EXCEPT
                      !.kd[rec.key] = NoEntry,
                      !.stats.total_stale_entries =
                          @ + 1 + (IF old # NoEntry THEN 1 ELSE 0),
                      !.stats.size_of_stale_entries =
                          @ + sz + (IF old # NoEntry THEN old.size ELSE 0)])
            ELSE ScanDataUnchecked(recs, i + 1, id,
                   [acc EXCEPT !.kd[rec.key] = KeyDirEntry(id, off, sz)])

\* Store::build_keydir_from_data_file without the tombstone branch
RECURSIVE ScanDataNoTombstone(_, _, _, _)
ScanDataNoTombstone(recs, i, id, acc) ==
    IF i > Len(recs) \/ acc.err # "" THEN acc
    ELSE LET rec == recs[i]
         IN IF ~is_valid(rec)
            THEN [acc EXCEPT !.err = "DataEntryCorrupted",
                             !.bad = Corrupted(id, rec.key, OffsetOf(recs, i))]
            ELSE ScanDataNoTombstone(recs, i + 1, id,
                   [acc EXCEPT !.kd[rec.key] =
                      KeyDirEntry(id, OffsetOf(recs, i), EncodedSize(rec))])

\* Store::build_keydir_from_data_file, records i.. of segment id
RECURSIVE ScanData(_, _, _, _)
ScanData(recs, i, id, acc) ==
    IF i > Len(recs) \/ acc.err # "" THEN acc
    ELSE LET rec == recs[i]
             off == OffsetOf(recs, i)
             sz == EncodedSize(rec)
             old == acc.kd[rec.key]
         IN IF ~is_valid(rec)
            THEN [acc EXCEPT !.err = "DataEntryCorrupted",
                             !.bad = Corrupted(id, rec.key, off)]
            ELSE IF rec.value = REMOVE_TOMESTONE
            THEN ScanData(recs, i + 1, id,
                   [acc EXCEPT
                      !.kd[rec.key] = NoEntry,
                      !.stats.total_stale_entries =
                          @ + 1 + (IF old # NoEntry THEN 1 ELSE 0),
                      !.stats.size_of_stale_entries =
                          @ + sz + (IF old # NoEntry THEN old.size ELSE 0)])
            ELSE ScanData(recs, i + 1, id,
                   [acc EXCEPT !.kd[rec.key] = KeyDirEntry(id, off, sz)])

\* Store::build_keydir_from_hint_file, entries i.. of the hint of segment id
RECURSIVE ScanHint(_, _, _, _)
ScanHint(ents, i, id, acc) ==
    IF i > Len(ents) THEN acc
    ELSE ScanHint(ents, i + 1, id,
           [acc EXCEPT !.kd[ents[i].key] =
                          KeyDirEntry(id, ents[i].offset, ents[i].size)])

\* Store::build_keydir without the sort: the segments in descending id order
RECURSIVE BuildFromUnsorted(_, _, _, _)
BuildFromUnsorted(ids, df, hf, acc) ==
    IF ids = {} \/ acc.err # "" THEN acc
    ELSE LET id == CHOOSE x \in ids : \A y \in ids : x >= y
             nxt == IF hf[id].exists
                    THEN ScanHint(hf[id].ents, 1, id, acc)
                    ELSE ScanData(df[id].recs, 1, id, acc)
         IN BuildFromUnsorted(ids \ {id}, df, hf, nxt)

\* Store::build_keydir: the segments in ascending id order
RECURSIVE BuildFrom(_, _, _, _)
BuildFrom(ids, df, hf, acc) ==
    IF ids = {} \/ acc.err # "" THEN acc
    ELSE LET id == CHOOSE x \in ids : \A y \in ids : x <= y
             nxt == IF hf[id].exists
                    THEN ScanHint(hf[id].ents, 1, id, acc)
                    ELSE ScanData(df[id].recs, 1, id, acc)
         IN BuildFrom(ids \ {id}, df, hf, nxt)

RECURSIVE SumLens(_, _)
SumLens(ids, df) ==
    IF ids = {} THEN 0
    ELSE LET id == CHOOSE x \in ids : TRUE
         IN FileLen(df[id]) + SumLens(ids \ {id}, df)

\* Store::open_data_files followed by Store::build_keydir
build_keydir(df, hf) ==
    LET ids == {i \in FileIds : df[i].exists}
        st0 == [StatsDefault EXCEPT
                  !.total_data_files = Cardinality(ids),
                  !.size_of_all_data_files = SumLens(ids, df)]
        acc == BuildFrom(ids, df, hf, [kd |-> EmptyKeydir, stats |-> st0, err |-> "", bad |-> NoError])
    IN [acc EXCEPT !.stats.total_active_entries = Cardinality(KeydirKeys(acc.kd))]

\* the id Store::new_active_data_file(None) picks
NextId(regs) == (IF regs = {} THEN 0 ELSE SetMax(regs)) + 1

\* DataFile::new(path, true): create the file unless it exists; the cached
\* size is the file length, the writer offset starts at 0
NewWritable(df, id) ==
    [df EXCEPT ![id] = IF @.exists THEN @ ELSE EmptyFile]

ActiveOn(df, id) == [id |-> id, size |-> FileLen(df[id]), woff |-> 0]

\* a replaced or finished writable DataFile that stays open for writing
SealedNever(ws, id) == ws

\* the writable DataFile of segment id is dropped (replaced in
\* `self.active_data_file`, or a local going out of scope): its writer is
\* closed, the segment is sealed
Sealed(ws, id) == ws \ {id}

(***************************************************************************)
(* Writing.                                                                *)
(***************************************************************************)
\* the append going through the reference taken before the rotation
WriteTargetStale(before, after) == before.id

\* the file Store::write appends to: after a rotation `df` is fetched from
\* `self.active_data_file` again
WriteTarget(before, after) == after.id

\* Store::write that reports the id of the file that was active on entry
WriteStaleId(key, value) ==
    LET rot == active.size > config.max_data_file_size
        nid == NextId(data_files)
        df1 == IF rot THEN NewWritable(dfile, nid) ELSE dfile
        act1 == IF rot THEN ActiveOn(df1, nid) ELSE active
        rec == InnerEntry(key, value)
        sz == EncodedSize(rec)
        df2 == [df1 EXCEPT ![WriteTarget(active, act1)].recs = Append(@, rec)]
    IN [rot |-> rot,
        nid |-> nid,
        dfile |-> df2,
        data_files |-> IF rot THEN data_files \cup {nid} ELSE data_files,
        writers |-> IF rot THEN Sealed(writers, active.id) \cup {nid} ELSE writers,
        active |-> [act1 EXCEPT !.size = act1.woff + sz, !.woff = @ + sz],
        files |-> IF rot THEN stats.total_data_files + 1
                  ELSE stats.total_data_files,
        synced |-> IF config.sync THEN Len(df2[act1.id].recs)
                   ELSE IF rot THEN Len(df1[nid].recs) ELSE synced,
        ent |-> [file_id |-> active.id, offset |-> act1.woff, size |-> sz]]

\* Store::write: rotate when the active file exceeds the limit, append one
\* record (DataFile::write), fsync in sync mode
Write(key, value) ==
    LET rot == active.size > config.max_data_file_size
        nid == NextId(data_files)
        df1 == IF rot THEN NewWritable(dfile, nid) ELSE dfile
        act1 == IF rot THEN ActiveOn(df1, nid) ELSE active
        rec == InnerEntry(key, value)
        sz == EncodedSize(rec)
        df2 == [df1 EXCEPT ![WriteTarget(active, act1)].recs = Append(@, rec)]
    IN [rot |-> rot,
        nid |-> nid,
        dfile |-> df2,
        data_files |-> IF rot THEN data_files \cup {nid} ELSE data_files,
        writers |-> IF rot THEN Sealed(writers, active.id) \cup {nid} ELSE writers,
        active |-> [act1 EXCEPT !.size = act1.woff + sz, !.woff = @ + sz],
        files |-> IF rot THEN stats.total_data_files + 1
                  ELSE stats.total_data_files,
        synced |-> IF config.sync THEN Len(df2[act1.id].recs)
                   ELSE IF rot THEN Len(df1[nid].recs) ELSE synced,
        ent |-> [file_id |-> act1.id, offset |-> act1.woff, size |-> sz]]

\* Store::set counting every insert as a new key
ActiveAfterSetAlways(n, old) == n + 1

\* Store::set: total_active_entries after keydir.insert returned `old`
ActiveAfterSet(n, old) == IF old = NoEntry THEN n + 1 ELSE n

\* the model's bounds leave room for one more record
CanWrite ==
    /\ written < MaxWrites
    /\ active.size > config.max_data_file_size
           => NextId(data_files) <= MaxFileId

\* Store::set rejecting with >= in place of >
SetTooLargeInclusive(key, value) ==
    /\ st = "open"
    /\ \/ Len(key) >= config.max_key_size
       \/ Len(value) >= config.max_value_size
    /\ last' = [op |-> "set", key |-> key,
                res |-> IF Len(key) >= config.max_key_size
                        THEN "KeyIsTooLarge" ELSE "ValueIsTooLarge",
                compacted |-> last.compacted]
    /\ UNCHANGED << diskVars, st, storeVars, ghostVars >>

\* Store::set, rejected by a size limit
SetTooLarge(key, value) ==
    /\ st = "open"
    /\ \/ Len(key) > config.max_key_size
       \/ Len(value) > config.max_value_size
    /\ last' = [op |-> "set", key |-> key,
                res |-> IF Len(key) > config.max_key_size
                        THEN "KeyIsTooLarge" ELSE "ValueIsTooLarge",
                compacted |-> last.compacted]
    /\ UNCHANGED << diskVars, st, storeVars, ghostVars >>

\* Store::set, accepted; when the write rotates, the replaced active file is
\* dropped, and `dropSynced` says whether the sync of that drop went through
SetAccepted(key, value, dropSynced) ==
    /\ st = "open"
    /\ Len(key) <= config.max_key_size
    /\ Len(value) <= config.max_value_size
    /\ CanWrite
    /\ last' = [op |-> "set", key |-> key, res |-> "Ok", compacted |-> FALSE]
    /\ written' = written + 1
    /\ latest' = [latest EXCEPT ![key] = Some(value)]
    /\ prefixes' = prefixes \cup {latest'}
    /\ sinceSync' = AckedAfter(sinceSync, latest')
    /\ LET w == Write(key, value)
           old == keydir[key]
           pending == synced < Len(dfile[active.id].recs)
       IN /\ ~dropSynced => (w.rot /\ pending)
          /\ loose' = IF w.rot THEN DropSync(loose, active.id, pending, dropSynced)
                       ELSE loose
          /\ dfile' = w.dfile
          /\ data_files' = w.data_files
          /\ active' = w.active
          /\ writers' = w.writers
          /\ created' = CreatedAfter(created, dfile, w.dfile)
          /\ synced' = w.synced
          /\ keydir' = [keydir EXCEPT
                          ![key] = KeyDirEntry(w.ent.file_id, w.ent.offset, w.ent.size)]
          /\ stats' = [stats EXCEPT
                 !.total_data_files = w.files,
                 !.total_active_entries = ActiveAfterSet(@, old),
                 !.size_of_stale_entries = IF old = NoEntry THEN @ ELSE @ + old.size,
                 !.total_stale_entries = IF old = NoEntry THEN @ ELSE @ + 1,
                 !.size_of_all_data_files = @ + w.ent.size]
    /\ UNCHANGED << hfile, st, config, closedView, crashes, target >>

\* Store::set, accepted, on a disk whose fsync does not fail
SetOk(key, value) ==
    /\ st = "open"
    /\ SetAccepted(key, value, TRUE)

\* Store::set, accepted, with a rotation in which the sync of the dropped
\* active file failed: data.rs 265-271 logs the error, the set goes on
SetOkSyncLost(key, value) ==
    /\ st = "open"
    /\ SetAccepted(key, value, FALSE)

\* Store::set
Set(key, value) == SetTooLarge(key, value) \/ SetOk(key, value)

\* Store::remove that appends the tombstone before it looks the key up
RemoveMissingAppends(key) ==
    /\ st = "open"
    /\ key \notin KeydirKeys(keydir)
    /\ CanWrite
    /\ LET w == Write(key, REMOVE_TOMESTONE)
       IN /\ dfile' = w.dfile
          /\ data_files' = w.data_files
          /\ active' = w.active
          /\ writers' = w.writers
          /\ synced' = w.synced
          /\ stats' = [stats EXCEPT !.total_data_files = w.files]
    /\ last' = [op |-> "remove", key |-> key, res |-> "KeyNotFound",
                compacted |-> last.compacted]
    /\ UNCHANGED << hfile, st, keydir, config, ghostVars >>

\* Store::remove of a key the keydir does not hold
RemoveMissing(key) ==
    /\ st = "open"
    /\ key \notin KeydirKeys(keydir)
    /\ last' = [op |-> "remove", key |-> key, res |-> "KeyNotFound",
                compacted |-> last.compacted]
    /\ UNCHANGED << diskVars, st, storeVars, ghostVars >>

\* Store::remove counting the removed entry only
StaleAfterRemoveEntryOnly(n, osize, tsize) == n + osize

\* Store::remove: size_of_stale_entries grows by the size of the removed
\* entry and by the size of the tombstone
StaleAfterRemove(n, osize, tsize) == n + osize + tsize

\* Store::remove of a key the keydir holds
RemoveOk(key) ==
    /\ st = "open"
    /\ key \in KeydirKeys(keydir)
    /\ CanWrite
    /\ last' = [op |-> "remove", key |-> key, res |-> "Ok", compacted |-> FALSE]
    /\ written' = written + 1
    /\ latest' = [latest EXCEPT ![key] = None]
    /\ prefixes' = prefixes \cup {latest'}
    /\ sinceSync' = AckedAfter(sinceSync, latest')
    /\ LET w == Write(key, REMOVE_TOMESTONE)
           old == keydir[key]
       IN /\ dfile' = w.dfile
          /\ data_files' = w.data_files
          /\ active' = w.active
          /\ writers' = w.writers
          /\ created' = CreatedAfter(created, dfile, w.dfile)
          /\ synced' = w.synced
          /\ keydir' = [keydir EXCEPT ![key] = NoEntry]
          /\ stats' = [stats EXCEPT
                 !.total_data_files = w.files,
                 !.total_active_entries = @ - 1,
                 !.total_stale_entries = @ + 1,
                 !.size_of_all_data_files = @ + w.ent.size,
                 !.size_of_stale_entries = StaleAfterRemove(@, old.size, w.ent.size)]
    /\ UNCHANGED << hfile, st, config, closedView, crashes, target, loose >>

\* Store::remove
Remove(key) == RemoveMissing(key) \/ RemoveOk(key)

\* Store::new_active_data_file(None) as Store::write calls it: the store
\* after the rotation, before the record is appended
Rotated ==
    LET nid == NextId(data_files)
        df1 == NewWritable(dfile, nid)
    IN [nid |-> nid,
        dfile |-> df1,
        data_files |-> data_files \cup {nid},
        writers |-> Sealed(writers, active.id) \cup {nid},
        active |-> ActiveOn(df1, nid),
        files |-> stats.total_data_files + 1]

\* Store::set returning an I/O error.  The call that fails is
\*   "register": in a rotation, DataFile::new(path, false) of the new active
\*               file, after `self.active_data_file` was replaced;
\*   "append":   DataFile::write, before a byte of the record is written (a
\*               rotation the write needed is complete by then);
\*   "fsync":    df.sync() in sync mode, after the record was appended.
SetFails(key, value) ==
    /\ st = "open"
    /\ Len(key) <= config.max_key_size
    /\ Len(value) <= config.max_value_size
    /\ active.size > config.max_data_file_size => NextId(data_files) <= MaxFileId
    /\ last' = [op |-> "set", key |-> key, res |-> "Io",
                compacted |-> last.compacted]
    /\ LET rot == active.size > config.max_data_file_size
           r == Rotated
           w == Write(key, value)
       IN \E fault \in {"register", "append", "fsync"} :
             \/ /\ fault = "register"
                /\ rot
                /\ dfile' = r.dfile
                /\ active' = r.active
                /\ writers' = r.writers
                /\ synced' = Len(r.dfile[r.nid].recs)
                /\ created' = CreatedAfter(created, dfile, r.dfile)
                /\ UNCHANGED << data_files, stats, written >>
             \/ /\ fault = "append"
                /\ dfile' = IF rot THEN r.dfile ELSE dfile
                /\ active' = IF rot THEN r.active ELSE active
                /\ writers' = IF rot THEN r.writers ELSE writers
                /\ data_files' = IF rot THEN r.data_files ELSE data_files
                /\ stats' = IF rot THEN [stats EXCEPT !.total_data_files = r.files]
                            ELSE stats
                /\ synced' = IF rot THEN Len(r.dfile[r.nid].recs) ELSE synced
                /\ created' = CreatedAfter(created, dfile, dfile')
                /\ UNCHANGED written
             \/ /\ fault = "fsync"
                /\ config.sync
                /\ written < MaxWrites
                /\ dfile' = w.dfile
                /\ active' = w.active
                /\ writers' = w.writers
                /\ data_files' = w.data_files
                /\ stats' = [stats EXCEPT !.total_data_files = w.files]
                /\ synced' = IF rot THEN Len(r.dfile[r.nid].recs) ELSE synced
                /\ created' = CreatedAfter(created, dfile, w.dfile)
                /\ written' = written + 1
    /\ UNCHANGED << hfile, st, keydir, config, latest, prefixes, closedView,
                    crashes, target, sinceSync, loose >>

(***************************************************************************)
(* Construction.                                                           *)
(***************************************************************************)
\* Store::open_with_options on a directory holding the files df, hf
OpenOn(df, hf) ==
    LET b == build_keydir(df, hf)
        ids == {i \in FileIds : df[i].exists}
        nid == NextId(ids)
        df1 == NewWritable(df, nid)
    IN [err |-> b.err, bad |-> b.bad, nid |-> nid, dfile |-> df1,
        data_files |-> ids \cup {nid},
        active |-> ActiveOn(df1, nid),
        keydir |-> b.kd,
        stats |-> [b.stats EXCEPT !.total_data_files = @ + 1]]

NoDisk == [i \in FileIds |-> NoFile]
NoHints == [i \in FileIds |-> NoHint]

\* OpenOptions::open on a directory that does not exist yet; `ids` tells
\* whether the history of file ids and compaction targets is recorded,
\* `syncs` whether the history of synced mappings is
InitHist(sync, ids, syncs) ==
        LET o == OpenOn(NoDisk, NoHints)
        IN /\ dfile = o.dfile
           /\ hfile = NoHints
           /\ synced = 0
           /\ st = "open"
           /\ data_files = o.data_files
           /\ active = o.active
           /\ writers = {o.nid}
           /\ keydir = o.keydir
           /\ stats = o.stats
           /\ config = Config(sync)
           /\ written = 0
           /\ latest = NoMapping
           /\ prefixes = {NoMapping}
           /\ closedView = NoView
           /\ crashes = "none"
           /\ created = IF ids THEN o.nid ELSE 0
           /\ target = IF ids THEN 0 ELSE -1
           /\ sinceSync = [on |-> syncs, maps |-> {}]
           /\ loose = {}
           /\ last = [op |-> "open", key |-> << >>, res |-> "Ok",
                      compacted |-> FALSE]

\* the same with the history of synced mappings not recorded
InitWith(sync, ids) == InitHist(sync, ids, FALSE)

(***************************************************************************)
(* Compaction.                                                             *)
(***************************************************************************)
\* Store::next_file_id
next_file_id == active.id + 1

\* Drop for DataFile without the clean-up of an empty file
DropWritableKeeps(df, id, size) == df

\* Drop for DataFile of a writable file: unlink it when its cached size is 0
DropWritable(df, id, size) ==
    IF size = 0 THEN [df EXCEPT ![id] = NoFile] ELSE df

\* every keydir entry is the location of a complete record of a file that
\* is registered when the copy loop runs, the new active file included
\* (copy_bytes_from then copies exactly that record)
Copyable ==
    \A k \in KeydirKeys(keydir) :
        /\ keydir[k].segment_id \in data_files \cup {next_file_id + 1}
        /\ LET r == ReadAt(dfile[keydir[k].segment_id], keydir[k].offset)
           IN r.ok /\ EncodedSize(r.rec) = keydir[k].size

\* the copy loop without `keydir_ent.offset = offset`
RECURSIVE CopyLoopKeepOffset(_, _, _, _)
CopyLoopKeepOffset(ks, j, cid, base) ==
    IF j = 0 THEN [recs |-> << >>, ents |-> << >>, kd |-> keydir, woff |-> 0]
    ELSE LET p == CopyLoopKeepOffset(ks, j - 1, cid, base)
             k == ks[j]
             e == keydir[k]
             rec == ReadAt(base[e.segment_id], e.offset).rec
             ne == [e EXCEPT !.segment_id = cid]
         IN [recs |-> Append(p.recs, rec),
             ents |-> Append(p.ents, [key |-> k, offset |-> ne.offset, size |-> ne.size]),
             kd |-> [p.kd EXCEPT ![k] = ne],
             woff |-> p.woff + e.size]

\* the copy loop writing each hint entry before `keydir_ent.offset = offset`
RECURSIVE CopyLoopStaleHint(_, _, _, _)
CopyLoopStaleHint(ks, j, cid, base) ==
    IF j = 0 THEN [recs |-> << >>, ents |-> << >>, kd |-> keydir, woff |-> 0]
    ELSE LET p == CopyLoopStaleHint(ks, j - 1, cid, base)
             k == ks[j]
             e == keydir[k]
             rec == ReadAt(base[e.segment_id], e.offset).rec
             ne == [e EXCEPT !.segment_id = cid, !.offset = p.woff]
         IN [recs |-> Append(p.recs, rec),
             ents |-> Append(p.ents, [key |-> k, offset |-> e.offset, size |-> ne.size]),
             kd |-> [p.kd EXCEPT ![k] = ne],
             woff |-> p.woff + e.size]

\* the copy loop of Store::compact after its first j iterations: the records
\* written to the compaction file, the hint entries written, the keydir
RECURSIVE CopyLoop(_, _, _, _)
CopyLoop(ks, j, cid, base) ==
    IF j = 0 THEN [recs |-> << >>, ents |-> << >>, kd |-> keydir, woff |-> 0]
    ELSE LET p == CopyLoop(ks, j - 1, cid, base)
             k == ks[j]
             e == keydir[k]
             rec == ReadAt(base[e.segment_id], e.offset).rec
             ne == [e EXCEPT !.segment_id = cid, !.offset = p.woff]
         IN [recs |-> Append(p.recs, rec),
             ents |-> Append(p.ents, [key |-> k, offset |-> ne.offset, size |-> ne.size]),
             kd |-> [p.kd EXCEPT ![k] = ne],
             woff |-> p.woff + e.size]

\* compaction_df.sync() left out: the copied records are still in the
\* BufWriter when the stale segments are removed
SyncedRecsNone(recs) == << >>

\* DataFile::sync on the compaction file: flush the BufWriter and fsync, so
\* every record copied so far is in the file
SyncedRecs(recs) == recs

\* the first steps of Store::compact: switch to the new active file C + 1
\* (the old active file is dropped) and create the files of the target C
CompactStart(cid) ==
    LET d1 == NewWritable(dfile, cid + 1)
        d2 == DropWritable(d1, active.id, active.size)
    IN [dfile |-> NewWritable(d2, cid),
        hfile |-> [hfile EXCEPT ![cid] = IF @.exists THEN @ ELSE EmptyHint],
        data_files |-> data_files \cup {cid + 1},
        active |-> ActiveOn(d1, cid + 1)]

\* Store::compact
Compact ==
    /\ st = "open"
    /\ next_file_id + 1 <= MaxFileId
    /\ Copyable
    /\ LET cid == next_file_id
           s == CompactStart(cid)
           ks == keys
           n == Len(ks)
           c == CopyLoop(ks, n, cid, s.dfile)
           old == {i \in s.data_files : i < cid}
           tsize == FileLen(s.dfile[cid]) + c.woff
           d3 == [i \in FileIds |->
                    IF i \in old THEN NoFile
                    ELSE IF i = cid
                         THEN [s.dfile[cid] EXCEPT !.recs = @ \o SyncedRecs(c.recs)]
                         ELSE s.dfile[i]]
           h3 == [i \in FileIds |->
                    IF i \in old THEN NoHint
                    ELSE IF i = cid
                         THEN [s.hfile[cid] EXCEPT !.ents = @ \o c.ents]
                         ELSE s.hfile[i]]
           regs == {i \in s.data_files : i >= cid} \cup {cid}
       IN /\ dfile' = DropWritable(d3, cid, tsize)
          /\ hfile' = IF n = 0 THEN [h3 EXCEPT ![cid] = NoHint] ELSE h3
          /\ data_files' = regs
          /\ active' = s.active
          /\ writers' = Sealed(Sealed(writers \cup {cid, cid + 1}, active.id), cid)
          /\ created' = CreatedAfter(created, dfile, s.dfile)
          /\ keydir' = c.kd
          /\ stats' = [total_data_files |-> Cardinality(regs),
                       total_active_entries |-> Cardinality(KeydirKeys(c.kd)),
                       total_stale_entries |-> 0,
                       size_of_stale_entries |-> 0,
                       size_of_all_data_files |-> tsize]
    /\ synced' = 0
    /\ target' = TargetAfter(target, next_file_id)
    /\ last' = [op |-> "compact", key |-> << >>, res |-> "Ok", compacted |-> TRUE]
    /\ UNCHANGED << st, config, histVars, closedView, crashes >>

\* Store::compact returning an I/O error.  The call that fails is
\*   "copy":   copy_bytes_from in iteration j + 1 of the copy loop, after j
\*             iterations went through;
\*   "sync":   compaction_df.sync() or hint_file.sync() after the loop;
\*   "unlink": fs::remove_file of the data file or of the hint file of the
\*             old segment f, after the segments U were removed (the HashMap
\*             yields them in any order).
\* `?` returns at once: the keydir keeps the entries the loop rewrote, the
\* compaction file is not registered, data_files is not pruned.  The
\* compaction DataFile and HintFile are dropped: hint entries were flushed
\* one by one; the copied records are flushed by the drop, which logs and
\* ignores a failure, so in "copy" and "sync" any d of them are on disk.
CompactFails ==
    /\ st = "open"
    /\ next_file_id + 1 <= MaxFileId
    /\ Copyable
    /\ last' = [op |-> "compact", key |-> << >>, res |-> "Io", compacted |-> TRUE]
    /\ LET cid == next_file_id
           s == CompactStart(cid)
           ks == keys
           old == {i \in s.data_files : i < cid}
       IN /\ \E fault \in {"copy", "sync", "unlink"} :
             \E j \in 0..Len(ks) :
                LET c == CopyLoop(ks, j, cid, s.dfile)
                    tsize == FileLen(s.dfile[cid]) + c.woff
                    h1 == [s.hfile EXCEPT ![cid].ents = @ \o c.ents]
                    h2 == IF j = 0 THEN [h1 EXCEPT ![cid] = NoHint] ELSE h1
                IN /\ keydir' = c.kd
                   /\ \/ /\ fault = "copy"
                         /\ j < Len(ks)
                         /\ \E d \in 0..j :
                               dfile' = DropWritable(
                                   [s.dfile EXCEPT ![cid].recs =
                                       @ \o SubSeq(c.recs, 1, d)], cid, tsize)
                         /\ hfile' = h2
                      \/ /\ fault = "sync"
                         /\ j = Len(ks)
                         /\ \E d \in 0..j :
                               dfile' = DropWritable(
                                   [s.dfile EXCEPT ![cid].recs =
                                       @ \o SubSeq(c.recs, 1, d)], cid, tsize)
                         /\ hfile' = h2
                      \/ /\ fault = "unlink"
                         /\ j = Len(ks)
                         /\ \E f \in old : \E U \in SUBSET (old \ {f}) :
                            \E atHint \in BOOLEAN :
                               LET gone == IF atHint THEN U \cup {f} ELSE U
                               IN /\ atHint => hfile[f].exists
                                  /\ dfile' = DropWritable(
                                        [i \in FileIds |->
                                           IF i \in gone THEN NoFile
                                           ELSE IF i = cid
                                                THEN [s.dfile[cid] EXCEPT
                                                         !.recs = @ \o SyncedRecs(c.recs)]
                                                ELSE s.dfile[i]], cid, tsize)
                                  /\ hfile' = [i \in FileIds |->
                                                 IF i \in U THEN NoHint ELSE h2[i]]
          /\ data_files' = s.data_files
          /\ active' = s.active
          /\ writers' = Sealed(Sealed(writers \cup {cid, cid + 1}, active.id), cid)
          /\ created' = CreatedAfter(created, dfile, s.dfile)
          /\ stats' = [stats EXCEPT !.total_data_files = @ + 1]
    /\ synced' = 0
    /\ target' = TargetAfter(target, next_file_id)
    /\ UNCHANGED << st, config, histVars, closedView, crashes >>

\* Store::compact returning the I/O error of its first step: in
\* new_active_data_file(Some(C + 1)) the call DataFile::new(path, false)
\* fails after `self.active_data_file` was replaced, so the new active file
\* C + 1 is not registered and nothing else of compact has run
CompactFailsRegister ==
    /\ st = "open"
    /\ next_file_id + 1 <= MaxFileId
    /\ last' = [op |-> "compact", key |-> << >>, res |-> "Io",
                compacted |-> last.compacted]
    /\ LET cid == next_file_id
           d1 == NewWritable(dfile, cid + 1)
       IN /\ dfile' = DropWritable(d1, active.id, active.size)
          /\ active' = ActiveOn(d1, cid + 1)
          /\ writers' = Sealed(writers, active.id) \cup {cid + 1}
          /\ created' = CreatedAfter(created, dfile, d1)
    /\ synced' = 0
    /\ target' = TargetAfter(target, next_file_id)
    /\ UNCHANGED << hfile, st, data_files, keydir, stats, config, histVars,
                    closedView, crashes >>

(***************************************************************************)
(* Shutdown, abrupt termination, reopen.                                   *)
(***************************************************************************)
\* Store::sync and Store::close: flush and fsync the active file
Close ==
    /\ st = "open"
    /\ synced' = Len(dfile[active.id].recs)
    /\ last' = [op |-> "close", key |-> << >>, res |-> "Ok",
                compacted |-> last.compacted]
    /\ sinceSync' = SyncedAt(sinceSync, latest)
    /\ UNCHANGED << dfile, hfile, st, storeVars, written, latest, prefixes,
                    closedView, crashes, created, target, loose >>

\* the store is gone: nothing of it is left in memory
Gone ==
    /\ data_files' = {}
    /\ active' = [id |-> 0, size |-> 0, woff |-> 0]
    /\ writers' = {}
    /\ keydir' = EmptyKeydir
    /\ stats' = StatsDefault
    /\ synced' = 0
    /\ target' = TargetAfter(target, 0)

\* Drop for Store: sync, then the active DataFile is dropped
Drop ==
    /\ st = "open"
    /\ st' = "closed"
    /\ dfile' = DropWritable(dfile, active.id, active.size)
    /\ closedView' = [view |-> View(keydir, data_files, dfile), keys |-> keys,
                      compacted |-> last.compacted]
    /\ Gone
    /\ last' = [op |-> "drop", key |-> << >>, res |-> "Ok", compacted |-> FALSE]
    /\ sinceSync' = SyncedAt(sinceSync, latest)
    /\ UNCHANGED << hfile, config, written, latest, prefixes, crashes, created,
                    loose >>

\* what is left of a file whose first `durable` records are fsynced when the
\* machine stops: any longer prefix of its bytes
Truncations(f, durable) ==
    { [exists |-> TRUE, recs |-> SubSeq(f.recs, 1, n), torn |-> t] :
        n \in durable..Len(f.recs), t \in {0, 1} } \cap
    { g \in [exists : {TRUE}, recs : {SubSeq(f.recs, 1, n) : n \in 0..Len(f.recs)},
             torn : {0, 1}] :
        g.torn = 0 \/ Len(g.recs) < Len(f.recs) }

\* abrupt termination between two operations
Crash ==
    /\ st = "open"
    /\ st' = "crashed"
    /\ \E g \in Truncations(dfile[active.id], synced) :
          dfile' = [dfile EXCEPT ![active.id] = g]
    /\ Gone
    /\ crashes' = IF crashes = "none" THEN "between" ELSE crashes
    /\ last' = [op |-> "crash", key |-> << >>, res |-> "Ok", compacted |-> FALSE]
    /\ UNCHANGED << hfile, config, histVars, closedView, created >>

\* abrupt termination inside Store::compact before both fsyncs returned: j
\* entries went through the copy loop; the compaction file is written through
\* a BufWriter and the hint file is flushed per entry, so any d <= j records
\* (and a torn one) and any h <= j hint entries are on disk
CrashInCopyUpTo(lim) ==
    /\ st = "open"
    /\ next_file_id + 1 <= lim
    /\ Copyable
    /\ st' = "crashed"
    /\ LET cid == next_file_id
           s == CompactStart(cid)
           ks == keys
       IN \E j \in 0..Len(ks) :
          \E d \in 0..j, h \in 0..j, td \in {0, 1} :
             LET c == CopyLoop(ks, j, cid, s.dfile)
             IN /\ td = 1 => d < j
                /\ dfile' = [s.dfile EXCEPT ![cid] =
                                [exists |-> TRUE,
                                 recs |-> @.recs \o SubSeq(c.recs, 1, d),
                                 torn |-> td]]
                /\ hfile' = [s.hfile EXCEPT ![cid] =
                                [exists |-> TRUE,
                                 ents |-> @.ents \o SubSeq(c.ents, 1, h),
                                 torn |-> 0]]
    /\ Gone
    /\ created' = CreatedAfter(created, dfile, CompactStart(next_file_id).dfile)
    /\ crashes' = "compact"
    /\ last' = [op |-> "crash", key |-> << >>, res |-> "copy", compacted |-> FALSE]
    /\ UNCHANGED << config, histVars, closedView >>

\* the same, in the range of file ids that the operations stay in
CrashInCopy ==
    /\ st = "open"
    /\ CrashInCopyUpTo(MaxFileId)

\* the same, where the interrupted compaction may have created the file
\* after that range
CrashInRecompact ==
    /\ st = "open"
    /\ CrashInCopyUpTo(MaxFileId + 1)

\* abrupt termination inside Store::compact after both fsyncs, while the old
\* segments are unlinked in the order the HashMap yields them: any set U of
\* them is gone, the hint file of the one in progress possibly still there
CrashInUnlink ==
    /\ st = "open"
    /\ next_file_id + 1 <= MaxFileId
    /\ Copyable
    /\ st' = "crashed"
    /\ LET cid == next_file_id
           s == CompactStart(cid)
           ks == keys
           c == CopyLoop(ks, Len(ks), cid, s.dfile)
           old == {i \in s.data_files : i < cid}
       IN \E U \in SUBSET old, hk \in SUBSET old :
             /\ hk \subseteq U
             /\ Cardinality(hk) <= 1
             /\ \A i \in hk : hfile[i].exists
             /\ dfile' = [i \in FileIds |->
                            IF i \in U THEN NoFile
                            ELSE IF i = cid
                                 THEN [s.dfile[cid] EXCEPT !.recs = @ \o SyncedRecs(c.recs)]
                                 ELSE s.dfile[i]]
             /\ hfile' = [i \in FileIds |->
                            IF i \in U \ hk THEN NoHint
                            ELSE IF i = cid
                                 THEN [s.hfile[cid] EXCEPT !.ents = @ \o c.ents]
                                 ELSE s.hfile[i]]
             /\ last' = [op |-> "crash", key |-> << >>,
                         res |-> IF U = {} THEN "synced" ELSE "unlink",
                         compacted |-> FALSE]
    /\ Gone
    /\ created' = CreatedAfter(created, dfile, CompactStart(next_file_id).dfile)
    /\ crashes' = "compact"
    /\ UNCHANGED << config, histVars, closedView >>

\* a record whose first value byte changed on disk: it still decodes, its
\* stored checksum no longer matches
Rotten(rec) == [rec EXCEPT !.value[1] = (@ + 1) % 256]

\* every record on disk passes its checksum
Intact ==
    \A i \in FileIds : \A n \in 1..Len(dfile[i].recs) : is_valid(dfile[i].recs[n])

\* one record of an intact disk rots, under a running store or a dropped one
Corrupt ==
    /\ st \in {"open", "closed"}
    /\ Intact
    /\ \E i \in FileIds : \E n \in 1..Len(dfile[i].recs) :
          dfile' = [dfile EXCEPT ![i].recs[n] = Rotten(@)]
    /\ last' = [op |-> "rot", key |-> << >>, res |-> "Ok",
                compacted |-> last.compacted]
    /\ UNCHANGED << hfile, synced, st, storeVars, ghostVars >>

\* Store::open on the directory a dropped or crashed store left behind.
\* After an abrupt termination the writes that recovery did not bring back
\* are no longer part of the history the next termination is measured on.
Reopen ==
    /\ st \in {"closed", "crashed"}
    /\ NextId({i \in FileIds : dfile[i].exists}) <= MaxFileId
    /\ LET o == OpenOn(dfile, hfile)
       IN /\ o.nid <= MaxFileId
          /\ IF o.err = ""
             THEN /\ st' = "open"
                  /\ dfile' = o.dfile
                  /\ data_files' = o.data_files
                  /\ active' = o.active
                  /\ writers' = {o.nid}
                  /\ created' = CreatedAfter(created, dfile, o.dfile)
                  /\ keydir' = o.keydir
                  /\ stats' = o.stats
                  /\ latest' = IF st = "closed" THEN latest
                                ELSE View(o.keydir, o.data_files, o.dfile)
                  /\ prefixes' = IF st = "closed" THEN prefixes ELSE {latest'}
                  /\ last' = [op |-> IF st = "closed" THEN "reopen" ELSE "recover",
                              key |-> << >>, res |-> "Ok", compacted |-> FALSE]
             ELSE /\ last' = [op |-> "open", key |-> << >>, res |-> o.err,
                              compacted |-> FALSE]
                  /\ UNCHANGED << st, dfile, data_files, active, writers,
                                  keydir, stats, latest, prefixes, created >>
    /\ synced' = 0
    /\ closedView' = NoView
    /\ sinceSync' = IF st = "closed" THEN sinceSync ELSE [sinceSync EXCEPT !.maps = {}]
    /\ UNCHANGED << hfile, config, written, crashes, target, loose >>

Next ==
    \/ \E k \in Keys, v \in Values : Set(k, v)
    \/ \E k \in Keys : Remove(k)
    \/ Compact
    \/ Close
    \/ Drop
    \/ Crash
    \/ CrashInCopy
    \/ CrashInUnlink
    \/ Reopen

\* Store::open: the default configuration (sync = false)
Init == InitWith(FALSE, FALSE)

\* OpenOptions::new().sync(true).open
InitSync == InitWith(TRUE, FALSE)

Spec == Init /\ [][Next]_vars

SpecSync == InitSync /\ [][Next]_vars

\* the default store (non-sync mode) with the history of synced mappings
\* recorded
InitDurable == InitHist(FALSE, FALSE, TRUE)

SpecDurable == InitDurable /\ [][Next]_vars

\* the default store with the history of file ids recorded
InitIds == InitWith(FALSE, TRUE)

SpecIds == InitIds /\ [][Next]_vars

\* set, remove and compact with the I/O errors compact can return, the
\* history of compaction targets recorded
NextCompactions ==
    \/ \E k \in Keys, v \in Values : Set(k, v)
    \/ \E k \in Keys : Remove(k)
    \/ Compact
    \/ CompactFails
    \/ CompactFailsRegister

SpecCompactions == InitIds /\ [][NextCompactions]_vars

\* the operations on a disk whose records can rot: no abrupt termination,
\* no I/O error
\* OpenOptions::open (default options) on a directory in which an earlier
\* run of the store left one record in the data file 1
InitSeeded ==
    \E k \in ValidKeys, v \in ValidValues :
        LET d0 == [NoDisk EXCEPT ![1] =
                      [exists |-> TRUE, recs |-> << InnerEntry(k, v) >>,
                       torn |-> 0]]
            o == OpenOn(d0, NoHints)
            m == View(o.keydir, o.data_files, o.dfile)
        IN /\ dfile = o.dfile
           /\ hfile = NoHints
           /\ synced = 0
           /\ st = "open"
           /\ data_files = o.data_files
           /\ active = o.active
           /\ writers = {o.nid}
           /\ keydir = o.keydir
           /\ stats = o.stats
           /\ config = Config(FALSE)
           /\ written = 0
           /\ latest = m
           /\ prefixes = {m}
           /\ closedView = NoView
           /\ crashes = "none"
           /\ created = 0
           /\ target = -1
           /\ sinceSync = [on |-> FALSE, maps |-> {}]
           /\ loose = {}
           /\ last = [op |-> "open", key |-> << >>, res |-> "Ok",
                      compacted |-> FALSE]

\* the store without abrupt terminations
NextSeeded ==
    \/ \E k \in Keys, v \in Values : Set(k, v)
    \/ \E k \in Keys : Remove(k)
    \/ Compact
    \/ Close
    \/ Drop
    \/ Reopen

SpecSeeded == InitSeeded /\ [][NextSeeded]_vars

NextRot ==
    \/ \E k \in Keys, v \in Values : Set(k, v)
    \/ \E k \in Keys : Remove(k)
    \/ Compact
    \/ Close
    \/ Drop
    \/ Reopen
    \/ Corrupt

SpecRot == Init /\ [][NextRot]_vars

\* a store of either sync mode
InitFaults == \E sync \in BOOLEAN : InitWith(sync, FALSE)

\* the operations with the I/O errors they can return, on a disk whose
\* records can rot: no abrupt termination
\* the store with reopening and with compactions that fail
NextUnlink ==
    \/ \E k \in Keys, v \in Values : Set(k, v)
    \/ \E k \in Keys : Remove(k)
    \/ Compact
    \/ CompactFails
    \/ Close
    \/ Drop
    \/ Reopen

SpecUnlink == Init /\ [][NextUnlink]_vars

NextFaults ==
    \/ \E k \in Keys, v \in Values : Set(k, v)
    \/ \E k \in Keys : Remove(k)
    \/ Compact
    \/ Close
    \/ Drop
    \/ Reopen
    \/ \E k \in ValidKeys, v \in ValidValues : SetFails(k, v)
    \/ CompactFails
    \/ CompactFailsRegister
    \/ Corrupt

SpecFaults == InitFaults /\ [][NextFaults]_vars

\* both modes, with abrupt terminations; the operations stay within
\* MaxFileId, and a compaction that is interrupted may have created the file
\* after it, so that a store that compacted once can be stopped inside its
\* next compaction
NextRecompact ==
    \/ \E k \in Keys, v \in Values : Set(k, v)
    \/ \E k \in Keys : Remove(k)
    \/ Compact
    \/ Close
    \/ Crash
    \/ CrashInRecompact
    \/ Reopen

SpecRecompact == InitFaults /\ [][NextRecompact]_vars

\* the default store with compactions, abrupt terminations and recovery
NextScan ==
    \/ \E k \in Keys, v \in Values : Set(k, v)
    \/ \E k \in Keys : Remove(k)
    \/ Compact
    \/ Crash
    \/ CrashInCopy
    \/ Reopen

SpecScan == Init /\ [][NextScan]_vars

\* the records a data file can hold
Records == {InnerEntry(k, v) : k \in ValidKeys, v \in ValidValues}

\* DataFile::new(path, true) on the file of segment 1, which holds any
\* MaxWrites records or fewer (as for the compaction target or the new active
\* file when Store::compact or Store::write pick the id of a file that
\* exists); no store is open
InitDataFile ==
    \E n \in 0..MaxWrites : \E recs \in [1..n -> Records] :
        LET d == [NoDisk EXCEPT ![1] = [exists |-> TRUE, recs |-> recs, torn |-> 0]]
        IN /\ dfile = d
           /\ hfile = NoHints
           /\ synced = 0
           /\ st = "file"
           /\ data_files = {}
           /\ active = ActiveOn(d, 1)
           /\ writers = {1}
           /\ keydir = EmptyKeydir
           /\ stats = StatsDefault
           /\ config = Config(FALSE)
           /\ written = 0
           /\ latest = NoMapping
           /\ prefixes = {NoMapping}
           /\ closedView = NoView
           /\ crashes = "none"
           /\ created = 0
           /\ target = -1
           /\ sinceSync = [on |-> FALSE, maps |-> {}]
           /\ loose = {}
           /\ last = [op |-> "new", key |-> << >>, res |-> "Ok",
                      compacted |-> FALSE]

\* DataFile::write on the writable DataFile: the record is appended (the
\* file is opened with O_APPEND), the Entry returned carries w.offset() as
\* read before the write, the cached size becomes that offset plus the
\* encoded length; `keydir` keeps the location returned for the key
DataFileWrite(key, value) ==
    /\ st = "file"
    /\ written < MaxWrites
    /\ LET rec == InnerEntry(key, value)
           sz == EncodedSize(rec)
       IN /\ dfile' = [dfile EXCEPT ![active.id].recs = Append(@, rec)]
          /\ active' = [active EXCEPT !.size = active.woff + sz, !.woff = @ + sz]
          /\ keydir' = [keydir EXCEPT ![key] = KeyDirEntry(active.id, active.woff, sz)]
    /\ written' = written + 1
    /\ last' = [op |-> "write", key |-> key, res |-> "Ok", compacted |-> FALSE]
    /\ UNCHANGED << hfile, synced, st, data_files, writers, stats, config,
                    latest, prefixes, closedView, crashes, created, target,
                    sinceSync, loose >>

NextDataFile == \E k \in ValidKeys, v \in ValidValues : DataFileWrite(k, v)

SpecDataFile == InitDataFile /\ [][NextDataFile]_vars

\* the store on a disk whose fsync can fail while a replaced active file is
\* dropped
NextSeal ==
    \/ \E k \in Keys, v \in Values : Set(k, v)
    \/ \E k \in ValidKeys, v \in ValidValues : SetOkSyncLost(k, v)
    \/ \E k \in Keys : Remove(k)
    \/ Compact
    \/ Close
    \/ Drop
    \/ Reopen

SpecSeal == InitFaults /\ [][NextSeal]_vars

(***************************************************************************)
(* Properties.                                                             *)
(***************************************************************************)
\* what get answers for every key now
view == View(keydir, data_files, dfile)

\* Store::len
len == Cardinality(KeydirKeys(keydir))

\* the step is an acknowledged write to key k
WritesKey(k) == RemoveOk(k) \/ \E w \in ValidValues : SetOk(k, w)

RecoveryEquivalence ==
    [][(st = "closed" /\ st' = "open")
          => /\ view' = closedView.view
             /\ keys' = closedView.keys]_vars

\* reopened after a set, a remove and a compact, with a key left
RecoveryEquivalenceWitness ==
    /\ st = "open"
    /\ last.op = "reopen"
    /\ written = MaxWrites
    /\ \E k \in ValidKeys : latest[k] = None /\ get(k) = None
    /\ \E k \in ValidKeys : get(k).tag = "Some" /\ hfile[keydir[k].segment_id].exists

RecoveredOn(df, hf) ==
    View(build_keydir(df, hf).kd, {i \in FileIds : df[i].exists}, df)

recovered == RecoveredOn(dfile, hfile)

\* C4 (as claimed): after an abrupt termination at any point in non-sync
\* mode, open succeeds and the recovered answers of get are, for every key,
\* those of the mapping after some prefix of the acknowledged writes (so
\* every keydir entry is readable and no superseded value reappears).
CrashSafety ==
    st = "crashed"
        => /\ build_keydir(dfile, hfile).err = ""
           /\ recovered \in prefixes

\* the part of C4 that the code keeps: the same, for a termination between
\* two operations
CrashSafetyOutsideCompact ==
    (st = "crashed" /\ last.res = "Ok")
        => /\ build_keydir(dfile, hfile).err = ""
           /\ recovered \in prefixes

\* C5 (as claimed): in sync mode every acknowledged set(k, v) that no later
\* acknowledged write replaced is answered by get(k) after a crash at any
\* moment and reopen.
SyncDurability ==
    st = "crashed"
        => \A k \in ValidKeys : latest[k].tag = "Some" => recovered[k] = latest[k]

\* the part of C5 that the code keeps: in sync mode a termination between
\* two operations loses no acknowledged write at all
SyncDurabilityOutsideCompact ==
    (st = "crashed" /\ last.res = "Ok") => recovered = latest

\* C6 (as claimed): whenever an operation has returned, every keydir entry
\* references a registered segment holding at its offset a complete,
\* checksum-valid record with the entry's key and a value that is not the
\* tombstone.
KeydirValid ==
    st = "open" =>
        \A k \in KeydirKeys(keydir) :
            /\ keydir[k].segment_id \in data_files
            /\ LET r == ReadAt(dfile[keydir[k].segment_id], keydir[k].offset)
               IN /\ r.ok
                  /\ is_valid(r.rec)
                  /\ r.rec.key = k
                  /\ r.rec.value # REMOVE_TOMESTONE

\* the part of C6 that the code keeps: the same, for stores that were never
\* terminated inside compact()
KeydirValidOutsideCompact ==
    crashes # "compact" => KeydirValid

RemoveAbsent ==
    [][(st = "open" /\ last'.op = "remove") =>
       \A k \in Keys :
          /\ (last'.key = k /\ k \notin KeydirKeys(keydir) /\ Remove(k))
                => /\ last'.res = "KeyNotFound"
                   /\ UNCHANGED << dfile, hfile, synced, data_files, active,
                                   keydir, stats >>
          /\ (last'.key = k /\ RemoveOk(k)) => k \notin KeydirKeys(keydir')]_vars

\* remove(k) failed on a key that had been set and removed before
RemoveAbsentWitness ==
    /\ st = "open"
    /\ last.op = "remove"
    /\ last.res = "KeyNotFound"
    /\ last.key \in ValidKeys
    /\ latest[last.key] = None
    /\ \E m \in prefixes : m[last.key].tag = "Some"

\* C10: set(k, v) with an oversized key returns KeyIsTooLarge, with an
\* oversized value (and a fitting key) ValueIsTooLarge, and then changes
\* neither the files nor the keydir nor the stats; with both lengths up to
\* and including the limits it is accepted.  (A step is set(k, v) if it is
\* the rejection of set(k, v), or if it returned Ok for k and recorded v as
\* the last value written to k.)
SizeLimits ==
    [][(st = "open" /\ last'.op = "set") =>
       \A k \in Keys, v \in Values :
          (/\ last'.key = k
           /\ \/ SetTooLarge(k, v)
              \/ last'.res = "Ok" /\ latest' = [latest EXCEPT ![k] = Some(v)]) =>
             IF Len(k) > config.max_key_size \/ Len(v) > config.max_value_size
             THEN /\ last'.res = IF Len(k) > config.max_key_size
                                 THEN "KeyIsTooLarge" ELSE "ValueIsTooLarge"
                  /\ UNCHANGED << dfile, hfile, synced, data_files, active,
                                  keydir, stats >>
             ELSE /\ last'.res = "Ok"
                  /\ GetIn(keydir', data_files', dfile', k) = Some(v)]_vars

\* a set at both limits was accepted, a later oversized value was rejected
SizeLimitsWitness ==
    /\ st = "open"
    /\ last.op = "set"
    /\ last.res = "ValueIsTooLarge"
    /\ Len(KeyMax) = config.max_key_size
    /\ Len(ValMax) = config.max_value_size
    /\ get(KeyMax) = Some(ValMax)

\* C11: a set that returns an error (a size limit, or an I/O error while
\* rotating, appending or fsyncing) leaves the keydir, the stats, the answers
\* of get and the answers a reopened store would give as they were.
FailedSetNoChange ==
    [][\A k \in Keys, v \in Values :
          (SetTooLarge(k, v) \/ SetFails(k, v))
             => /\ keydir' = keydir
                /\ stats' = stats
                /\ view' = view
                /\ recovered' = recovered]_vars

\* the segments open scans (they have no hint file) that hold a record
\* whose checksum does not match
BadSegments ==
    {i \in FileIds :
        /\ dfile[i].exists
        /\ ~hfile[i].exists
        /\ \E n \in 1..Len(dfile[i].recs) : ~is_valid(dfile[i].recs[n])}

\* the first such record in recovery order: lowest segment, lowest offset
FirstBad ==
    LET s == CHOOSE i \in BadSegments : \A j \in BadSegments : i <= j
        bad == {n \in 1..Len(dfile[s].recs) : ~is_valid(dfile[s].recs[n])}
        n == CHOOSE x \in bad : \A y \in bad : x <= y
    IN Corrupted(s, dfile[s].recs[n].key, OffsetOf(dfile[s].recs, n))

\* C12: when open scans a data file without hint file that holds a decodable
\* record failing its checksum, open fails with DataEntryCorrupted carrying
\* the file id, the key and the start offset of the first such record, and
\* no store comes back.
CorruptionDetected ==
    [][(Reopen /\ BadSegments # {})
          => /\ last'.op = "open"
             /\ last'.res = "DataEntryCorrupted"
             /\ OpenOn(dfile, hfile).bad = FirstBad
             /\ st' = st
             /\ data_files' = {}
             /\ keydir' = EmptyKeydir]_vars

\* open failed on a record that is not the first of its file
CorruptionDetectedWitness ==
    /\ st = "closed"
    /\ last.op = "open"
    /\ last.res = "DataEntryCorrupted"
    /\ BadSegments # {}
    /\ FirstBad.offset > 0

\* the keydir entry of k points into a segment the store has not registered
Unregistered(k) == keydir[k].segment_id \notin data_files

\* the record the keydir entry of k points at fails its checksum
Mismatch(k) ==
    /\ ~Unregistered(k)
    /\ LET r == ReadAt(dfile[keydir[k].segment_id], keydir[k].offset)
       IN r.ok /\ ~is_valid(r.rec)

\* C13: for a key of the keydir, get returns DataEntryCorrupted, never a
\* value, when the record on disk fails its checksum and also when the
\* segment the entry names is not registered.
CorruptReadRejected ==
    st = "open"
       => \A k \in KeydirKeys(keydir) :
             (Mismatch(k) \/ Unregistered(k))
                => get(k) = Err("DataEntryCorrupted")

CrashBeforeSyncRecovers ==
    (st = "crashed" /\ last.res = "copy")
       => LET b == build_keydir(dfile, hfile)
          IN /\ b.err = ""
             /\ \A k \in KeydirKeys(b.kd) :
                   LET e == b.kd[k]
                       r == ReadAt(dfile[e.segment_id], e.offset)
                   IN /\ dfile[e.segment_id].exists
                      /\ r.ok
                      /\ EncodedSize(r.rec) = e.size
                      /\ is_valid(r.rec)
                      /\ r.rec.key = k
                      /\ latest[k] = Some(r.rec.value)

\* C16: when compact returns an error, at whichever step (copying,
\* fsyncing, unlinking one of several old files), the next open succeeds and
\* answers get as the store did before the compact call; in particular no
\* removed key comes back.
FailedCompactKeepsMapping ==
    [][(st = "open" /\ last'.op = "compact" /\ last'.res = "Io")
          => LET disk == DropWritable(dfile', active'.id, active'.size)
             IN /\ build_keydir(disk, hfile').err = ""
                /\ RecoveredOn(disk, hfile') = view]_vars

IdsIncrease ==
    [][\A i \in FileIds :
          (~dfile[i].exists /\ dfile'[i].exists) => i > created]_vars

FreshScan ==
    [kd |-> EmptyKeydir, stats |-> StatsDefault, err |-> "", bad |-> NoError]

\* C20: the hint file is authoritative: for every segment that has a hint
\* file when the directory is opened, the keydir entries built from the
\* hint file alone are exactly the entries a full scan of the segment's
\* data file builds.
HintAuthoritative ==
    st # "open"
       => \A i \in FileIds :
             (dfile[i].exists /\ hfile[i].exists)
                => LET scan == ScanData(dfile[i].recs, 1, i, FreshScan)
                   IN /\ scan.err = ""
                      /\ ScanHint(hfile[i].ents, 1, i, FreshScan).kd = scan.kd

\* C21: whenever a public operation has returned (open, set of a new key,
\* set over an existing key, remove, failed remove, compact),
\* stats.total_active_entries is the number of keys in the keydir.
ActiveEntriesCount ==
    st = "open" => stats.total_active_entries = Cardinality(KeydirKeys(keydir))

\* a set overwrote a live key
ActiveEntriesCountWitness ==
    /\ st = "open"
    /\ last.op = "set"
    /\ last.res = "Ok"
    /\ stats.total_stale_entries > 0
    /\ stats.total_active_entries = 1
    /\ written = 2

\* C22: between public operations, and again after close and reopen, len()
\* is the number of keys for which get answers Some.
LenCountsLive ==
    st = "open" => len = Cardinality({k \in ValidKeys : get(k).tag = "Some"})

\* the part of C22 that the code keeps: the same, for stores that were never
\* terminated inside compact()
LenCountsLiveOutsideCompact ==
    crashes # "compact" => LenCountsLive

\* the ids of the data files in the directory
DataIds == {i \in FileIds : dfile[i].exists}

\* C23: dropping a store whose active file is empty (nothing was written
\* since it was opened) deletes that file and no other, and opening a
\* dropped store adds the new, empty active file and no other: open
\* followed by drop leaves the set of data files as it was, however often
\* it is repeated.
EmptyActiveDeleted ==
    [][/\ (st = "open" /\ st' = "closed" /\ active.size = 0)
            => /\ active.id \in DataIds
               /\ DataIds' = DataIds \ {active.id}
       /\ (st = "closed" /\ st' = "open")
            => /\ active'.id \notin DataIds
               /\ DataIds' = DataIds \cup {active'.id}
               /\ active'.size = 0
               /\ FileLen(dfile'[active'.id]) = 0]_vars

\* a store was opened and dropped without a write and opened again: the
\* directory was empty, the active file has the first id again
EmptyActiveDeletedWitness ==
    /\ st = "open"
    /\ last.op = "reopen"
    /\ DataIds = {1}
    /\ active.id = 1
    /\ written = 0

\* C24: a set or remove that starts while the size of the active file is
\* above max_data_file_size seals the active file and appends its record at
\* offset 0 of a new active file whose id is the old active id + 1; one that
\* starts with the size at or below the limit appends to the active file.
\* So the file a record is appended to never exceeds the limit beforehand.
RotationRule ==
    [][(st = "open" /\ last'.op \in {"set", "remove"} /\ last'.res = "Ok")
          => LET rot == active.size > config.max_data_file_size
                 tgt == IF rot THEN active.id + 1 ELSE active.id
             IN /\ tgt \in FileIds
                /\ active'.id = tgt
                /\ writers' = {tgt}
                /\ FileLen(dfile[tgt]) <= config.max_data_file_size
                /\ Len(dfile'[tgt].recs) = Len(dfile[tgt].recs) + 1
                /\ keydir'[last'.key] # NoEntry
                      => /\ keydir'[last'.key].segment_id = tgt
                         /\ keydir'[last'.key].offset = FileLen(dfile[tgt])
                /\ rot => /\ ~dfile[tgt].exists
                          /\ dfile'[active.id] = dfile[active.id]
                          /\ active'.woff = active'.size]_vars

\* C25: compact() takes C = active id + 1 as the id of its target and makes
\* C + 1 the active file without writing a record to it; every record a set
\* or remove appends once a compact() was called lands in a file with id
\* >= C + 1, never in the target C.
WritesAfterCompact ==
    [][/\ (st = "open" /\ last'.op = "compact")
            => /\ target' = active.id + 1
               /\ active'.id = target' + 1
               /\ active'.size = 0
       /\ (st = "open" /\ target > 0
              /\ last'.op \in {"set", "remove"} /\ last'.res = "Ok")
            => \A i \in FileIds :
                  Len(dfile'[i].recs) > Len(dfile[i].recs) => i >= target + 1]_vars

\* C26: at every point of compact() a reader can come to (compact takes
\* &mut self, so these are the points at which it returns, with Ok or with
\* an error), each keydir entry names a segment the store can read and the
\* location of a complete record of its key: an entry is switched to
\* (C, new offset) only once the record can be read there.
KeydirReadable ==
    st = "open"
       => \A k \in KeydirKeys(keydir) :
             /\ keydir[k].segment_id \in data_files
             /\ LET r == ReadAt(dfile[keydir[k].segment_id], keydir[k].offset)
                IN /\ r.ok
                   /\ r.rec.key = k
                   /\ EncodedSize(r.rec) = keydir[k].size

(***************************************************************************)
(* C27.                                                                    *)
(***************************************************************************)
\* the old segments (id below the compaction target) of which compact()
\* took the data file or the hint file off the disk
UnlinkedBy(df, hf, df1, hf1, cid) ==
    {i \in FileIds : /\ i < cid
                     /\ \/ df[i].exists /\ ~df1[i].exists
                        \/ hf[i].exists /\ ~hf1[i].exists}

\* the old segments of which compact() took a data file holding bytes, or
\* the hint file, off the disk
RecordsUnlinkedBy(df, hf, df1, hf1, cid) ==
    {i \in FileIds : /\ i < cid
                     /\ \/ df[i].exists /\ FileLen(df[i]) > 0 /\ ~df1[i].exists
                        \/ hf[i].exists /\ ~hf1[i].exists}

\* every live record is one of the records of the data file of the target
\* cid, and the hint file of cid holds an entry of its key
CopiedAndSynced(kd, df, kd1, df1, hf1, cid) ==
    \A k \in KeydirKeys(kd) :
        /\ kd1[k].segment_id = cid
        /\ df1[cid].exists
        /\ \E n \in 1..Len(df1[cid].recs) :
              df1[cid].recs[n] = ReadAt(df[kd[k].segment_id], kd[k].offset).rec
        /\ hf1[cid].exists
        /\ \E n \in 1..Len(hf1[cid].ents) :
              /\ hf1[cid].ents[n].key = k
              /\ hf1[cid].ents[n].size = kd[k].size

\* C27 as stated: a call of compact() that takes an old data file or an old
\* hint file off the disk has copied every live record into the target and
\* has both files of the target on disk; a call in which the copy or a sync
\* fails takes none off
NoUnlinkBeforeSync ==
    [][(st = "open" /\ last'.op = "compact")
          => (UnlinkedBy(dfile, hfile, dfile', hfile', next_file_id) # {}
                 => CopiedAndSynced(keydir, dfile, keydir', dfile', hfile',
                                    next_file_id))]_vars

\* C27, restated: a call of compact() that takes an old data file holding
\* bytes, or an old hint file, off the disk has copied every live record
\* into the target and has both files of the target on disk; a call in which
\* the copy or a sync fails takes none of these off (the old active file, if
\* empty, goes when compact() switches the active file)
NoRecordUnlinkBeforeSync ==
    [][(st = "open" /\ last'.op = "compact")
          => (RecordsUnlinkedBy(dfile, hfile, dfile', hfile', next_file_id) # {}
                 => CopiedAndSynced(keydir, dfile, keydir', dfile', hfile',
                                    next_file_id))]_vars

\* compact() failed in the copy loop: one key was switched to the target, another
\* one still names an old segment whose data file is on disk
NoRecordUnlinkBeforeSyncWitness ==
    /\ st = "open"
    /\ last.op = "compact"
    /\ last.res = "Io"
    /\ \E k1, k2 \in KeydirKeys(keydir) :
          /\ keydir[k1].segment_id = active.id - 1
          /\ keydir[k2].segment_id < active.id - 1
          /\ dfile[keydir[k2].segment_id].exists

(***************************************************************************)
(* C28.                                                                    *)
(***************************************************************************)
\* C28: when compact() with the target C returns Ok, no data file and no
\* hint file with an id below C is on disk, and the registered segments are
\* exactly C, which is read-only, and the new active file C + 1
StaleSegmentsGone ==
    [][(st = "open" /\ last'.op = "compact" /\ last'.res = "Ok")
          => /\ \A i \in FileIds :
                   i < next_file_id => ~dfile'[i].exists /\ ~hfile'[i].exists
             /\ data_files' = {next_file_id, next_file_id + 1}
             /\ active'.id = next_file_id + 1
             /\ writers' = {next_file_id + 1}]_vars

(***************************************************************************)
(* C29.                                                                    *)
(***************************************************************************)
\* the data file f and the hint file h of a compaction target hold exactly
\* the records of the keydir kd1, which maps the keys of kd: record n of f is
\* the record of the n-th key in ascending order, it starts where record
\* n - 1 ends, entry n of h is (key, offset, size) of that key's entry
CompactedLayout(kd, kd1, f, h, cid) ==
    LET n == Cardinality(KeydirKeys(kd))
    IN /\ KeydirKeys(kd1) = KeydirKeys(kd)
       /\ \A k \in KeydirKeys(kd) :
             kd1[k].segment_id = cid /\ kd1[k].size = kd[k].size
       /\ Len(f.recs) = n /\ f.torn = 0
       /\ Len(h.ents) = n /\ h.torn = 0
       /\ n > 0 => f.exists /\ h.exists
       /\ \A i \in 1..n :
             LET k == f.recs[i].key
             IN /\ k \in KeydirKeys(kd)
                /\ i > 1 => LexLess(f.recs[i - 1].key, k)
                /\ kd1[k].offset = OffsetOf(f.recs, i)
                /\ kd1[k].size = EncodedSize(f.recs[i])
                /\ h.ents[i] = [key |-> k, offset |-> kd1[k].offset,
                                size |-> kd1[k].size]

\* C29: when compact() with the target C returns Ok, every keydir entry has
\* segment_id = C and the size it had, the data file of C holds exactly one
\* record per live key, contiguous and in ascending key order, and the hint
\* file of C holds exactly the entries (key, offset, size) of the keydir
CompactionLayout ==
    [][(st = "open" /\ last'.op = "compact" /\ last'.res = "Ok")
          => CompactedLayout(keydir, keydir', dfile'[next_file_id],
                             hfile'[next_file_id], next_file_id)]_vars

(***************************************************************************)
(* C30.                                                                    *)
(***************************************************************************)
\* the segments of the directory in which recovery meets the key k: in the
\* hint file of the segment if it has one, in its data file otherwise
SegmentsOf(df, hf, k) ==
    {i \in FileIds :
        /\ df[i].exists
        /\ IF hf[i].exists
           THEN \E n \in 1..Len(hf[i].ents) : hf[i].ents[n].key = k
           ELSE \E n \in 1..Len(df[i].recs) : df[i].recs[n].key = k}

\* the keydir entry of the last record of k in (segment id, offset) order:
\* none if the key has no record or if that record is a tombstone
LastEntry(df, hf, k) ==
    IF SegmentsOf(df, hf, k) = {} THEN NoEntry
    ELSE LET i == SetMax(SegmentsOf(df, hf, k))
         IN IF hf[i].exists
            THEN LET n == SetMax({m \in 1..Len(hf[i].ents) :
                                     hf[i].ents[m].key = k})
                 IN KeyDirEntry(i, hf[i].ents[n].offset, hf[i].ents[n].size)
            ELSE LET n == SetMax({m \in 1..Len(df[i].recs) :
                                     df[i].recs[m].key = k})
                 IN IF df[i].recs[n].value = REMOVE_TOMESTONE THEN NoEntry
                    ELSE KeyDirEntry(i, OffsetOf(df[i].recs, n),
                                     EncodedSize(df[i].recs[n]))

\* C30: the keydir that open builds from the directory a clean close leaves
\* is, entry for entry, the keydir that was in memory at the close, and each
\* key has the entry of its last record in (segment id, offset) order, or
\* none if that record is a tombstone
RebuiltKeydirSame ==
    [][/\ (st = "open" /\ st' = "closed")
            => /\ build_keydir(dfile', hfile').err = ""
               /\ build_keydir(dfile', hfile').kd = keydir
               /\ \A k \in DOMAIN keydir :
                     keydir[k] = LastEntry(dfile', hfile', k)
       /\ (st = "closed" /\ st' = "open")
            => keydir' = build_keydir(dfile, hfile).kd]_vars

(***************************************************************************)
(* C31.                                                                    *)
(***************************************************************************)
\* C31: in non-sync mode, once sync(), close() or the drop of the store has
\* returned, an abrupt termination at any later moment leaves a directory
\* that opens and answers get, for every key, as one of the mappings held
\* from that sync on: the one at the sync or one after a later acknowledged
\* write.
SyncedSurvives ==
    (st = "crashed" /\ sinceSync.maps # {})
        => /\ build_keydir(dfile, hfile).err = ""
           /\ recovered \in sinceSync.maps

\* the part of C31 that the code keeps: the same, for a termination between
\* two operations
SyncedSurvivesOutsideCompact ==
    (st = "crashed" /\ sinceSync.maps # {} /\ last.res = "Ok")
        => /\ build_keydir(dfile, hfile).err = ""
           /\ recovered \in sinceSync.maps

(***************************************************************************)
(* C32, C33.                                                               *)
(***************************************************************************)
\* the bytes of the complete records in the data files ids of the disk df
RECURSIVE RecordBytes(_, _)
RecordBytes(ids, df) ==
    IF ids = {} THEN 0
    ELSE LET id == CHOOSE x \in ids : TRUE
         IN SumSizes(df[id].recs, Len(df[id].recs)) + RecordBytes(ids \ {id}, df)

\* the sum of the sizes of the keydir entries of the keys ks
RECURSIVE EntryBytes(_, _)
EntryBytes(ks, kd) ==
    IF ks = {} THEN 0
    ELSE LET k == CHOOSE x \in ks : TRUE
         IN kd[k].size + EntryBytes(ks \ {k}, kd)

\* the number of records in the data files ids of the disk df
RECURSIVE RecordCount(_, _)
RecordCount(ids, df) ==
    IF ids = {} THEN 0
    ELSE LET id == CHOOSE x \in ids : TRUE
         IN Len(df[id].recs) + RecordCount(ids \ {id}, df)

\* C32: whenever a public operation has returned Ok, open included,
\* stats.size_of_stale_entries is the total encoded size of the records on
\* disk that the keydir does not reference, which is
\* stats.size_of_all_data_files less the sizes of the keydir entries.
StaleSizeExact ==
    (st = "open" /\ last.res = "Ok")
        => /\ stats.size_of_stale_entries =
                 RecordBytes(FileIds, dfile) - EntryBytes(KeydirKeys(keydir), keydir)
           /\ stats.size_of_stale_entries =
                 stats.size_of_all_data_files
                    - EntryBytes(KeydirKeys(keydir), keydir)

\* C33: whenever a public operation has returned Ok, open included,
\* stats.total_stale_entries is the number of records on disk that the
\* keydir does not reference.
StaleCountExact ==
    (st = "open" /\ last.res = "Ok")
        => stats.total_stale_entries =
              RecordCount(FileIds, dfile) - Cardinality(KeydirKeys(keydir))

(***************************************************************************)
(* C34.                                                                    *)
(***************************************************************************)
\* C34: remove(k) that returns Ok appends exactly one record, the tombstone
\* of k, at the end of the file that is the active file when it returns, and
\* leaves every other file as it was; it deletes k from the keydir and leaves
\* the entries of the other keys alone; size_of_stale_entries grows by the
\* size of the removed entry plus the size of the tombstone,
\* size_of_all_data_files by the size of the tombstone, and
\* total_active_entries decreases by one.
RemoveEffect ==
    [][(st = "open" /\ last'.op = "remove" /\ last'.res = "Ok")
          => LET k == last'.key
                 a == active'.id
                 n == Len(dfile'[a].recs)
                 tomb == dfile'[a].recs[n]
             IN /\ k \in KeydirKeys(keydir)
                /\ n = Len(dfile[a].recs) + 1
                /\ SubSeq(dfile'[a].recs, 1, n - 1) = dfile[a].recs
                /\ tomb.key = k
                /\ tomb.value = REMOVE_TOMESTONE
                /\ \A i \in FileIds \ {a} : dfile'[i] = dfile[i]
                /\ hfile' = hfile
                /\ keydir' = [keydir EXCEPT ![k] = NoEntry]
                /\ stats'.size_of_stale_entries =
                      stats.size_of_stale_entries + keydir[k].size
                         + EncodedSize(tomb)
                /\ stats'.size_of_all_data_files =
                      stats.size_of_all_data_files + EncodedSize(tomb)
                /\ stats'.total_active_entries =
                      stats.total_active_entries - 1]_vars

\* a remove returned Ok while another key was live: the tombstone is the
\* last record of the active file
RemoveEffectWitness ==
    /\ st = "open"
    /\ last.op = "remove"
    /\ last.res = "Ok"
    /\ last.key \notin KeydirKeys(keydir)
    /\ KeydirKeys(keydir) # {}
    /\ Len(dfile[active.id].recs) > 0
    /\ dfile[active.id].recs[Len(dfile[active.id].recs)].value = REMOVE_TOMESTONE


\* C35: after compact() returned Ok, in sync or non-sync mode, an abrupt
\* termination at any moment before the next write (between two operations
\* or inside a further compact()), followed by reopen, succeeds and answers
\* every get as the store did when compact() returned.
CompactDurable ==
    [][(st = "open" /\ st' = "crashed" /\ last.op = "compact" /\ last.res = "Ok")
          => /\ build_keydir(dfile', hfile').err = ""
             /\ RecoveredOn(dfile', hfile') = View(keydir, data_files, dfile)]_vars


\* the part of C35 that the code keeps: the same, for a termination between
\* two operations
CompactDurableOutsideCompact ==
    [][(st = "open" /\ st' = "crashed" /\ last.op = "compact" /\ last.res = "Ok"
        /\ last'.res = "Ok")
          => /\ build_keydir(dfile', hfile').err = ""
             /\ RecoveredOn(dfile', hfile') = View(keydir, data_files, dfile)]_vars


\* C36: whenever a data file stopped being the active file (a rotation in
\* write, or compact switching the active file), all its records were
\* fsynced before a record is appended to its successor: between two
\* operations no file other than the active one holds a record that no
\* fsync covered.
SealedFilesSynced ==
    st = "open" => {i \in loose : i # active.id /\ dfile[i].exists} = {}


\* C37: between two operations, also after a failed compact() and after an
\* abrupt termination followed by reopen, a hint file never outlives or
\* contradicts its data file: whenever the hint file of a segment exists,
\* the data file of the segment exists and every hint entry (key, offset,
\* size) locates a complete record with that key and that size in it.
HintsMatchData ==
    st = "open" =>
        \A i \in FileIds :
            hfile[i].exists =>
                /\ dfile[i].exists
                /\ \A n \in 1..Len(hfile[i].ents) :
                      LET e == hfile[i].ents[n]
                          r == ReadAt(dfile[i], e.offset)
                      IN /\ r.ok
                         /\ r.rec.key = e.key
                         /\ EncodedSize(r.rec) = e.size

\* the part of C37 that the code keeps: the same, for stores none of whose
\* compactions failed or was interrupted
HintsMatchDataOutsideCompact ==
    (crashes # "compact") => HintsMatchData


(***************************************************************************)
(* The server: requests, replies (src/src/server.rs).                      *)
(***************************************************************************)
Space == 32
Star == 42

RECURSIVE TrimStartMatches(_, _)
\* str::trim_start_matches
TrimStartMatches(s, c) ==
    IF s # << >> /\ s[1] = c THEN TrimStartMatches(Tail(s), c) ELSE s

RECURSIVE TrimEndMatches(_, _)
\* str::trim_end_matches
TrimEndMatches(s, c) ==
    IF s # << >> /\ s[Len(s)] = c
    THEN TrimEndMatches(SubSeq(s, 1, Len(s) - 1), c) ELSE s

\* str::trim (the whitespace of the model is the space)
Trim(s) == TrimEndMatches(TrimStartMatches(s, Space), Space)

\* str::ends_with, slice::starts_with
EndsWith(s, c) == s # << >> /\ s[Len(s)] = c
StartsWith(s, p) == Len(p) <= Len(s) /\ SubSeq(s, 1, Len(p)) = p

RECURSIVE Utf8Lossy(_)
\* String::from_utf8_lossy on the bytes of the model: an ASCII byte is kept,
\* any other byte is not the start of a sequence the model's strings hold
\* and becomes U+FFFD (3 bytes)
Utf8Lossy(bs) ==
    IF bs = << >> THEN << >>
    ELSE (IF Head(bs) < 128 THEN << Head(bs) >> ELSE << 239, 191, 189 >>)
            \o Utf8Lossy(Tail(bs))

\* enum RespValue: `str` of SimpleStr and BulkStr, `items` the strings of
\* the BulkStr members of an Array
SimpleStr(s) == [tag |-> "SimpleStr", str |-> s, items |-> << >>]
BulkStr(s) == [tag |-> "BulkStr", str |-> s, items |-> << >>]
RespError(name) == [tag |-> "Error", str |-> name, items |-> << >>]
RespInteger == [tag |-> "Integer", str |-> << >>, items |-> << >>]
RespArray(items) == [tag |-> "Array", str |-> << >>, items |-> items]
NullBulkStr == [tag |-> "NullBulkStr", str |-> << >>, items |-> << >>]
NullArray == [tag |-> "NullArray", str |-> << >>, items |-> << >>]

\* the bulk strings a client sends as arguments: "$<len>\r\n<bytes>\r\n"
RawArgs ==
    {<< >>, << Space >>, KeyA, KeyMax, << Star >>, KeyA \o << Star >>}

\* Deserializer::deserialize, b'$': the payload, trimmed
BulkArg(raw) == Trim(Utf8Lossy(raw))

Commands == {"PING", "GET", "SET", "DEL", "COMPACT", "KEYS", "DBSIZE"}

\* Request::new of an array of bulk strings: the command and its arguments
Requests ==
    [cmd : Commands,
     args : UNION {[1..n -> {BulkArg(r) : r \in RawArgs}] : n \in 0..MaxArgs}]

RECURSIVE KeysWithPrefix(_, _)
\* the loop of "KEYS": the keys of the store that start with the prefix, as
\* bulk strings, in the order of Store::keys
KeysWithPrefix(ks, prefix) ==
    IF ks = << >> THEN << >>
    ELSE (IF Len(prefix) = 0 \/ StartsWith(Head(ks), prefix)
          THEN << Utf8Lossy(Head(ks)) >> ELSE << >>)
            \o KeysWithPrefix(Tail(ks), prefix)

\* Server::process_request: the reply to the request, where `ok` says
\* whether the store's set, remove or compact returns Ok
process_request(request, ok) ==
    LET n == Len(request.args)
        stored == IF ok THEN SimpleStr("OK") ELSE RespError("STOREERR")
    IN CASE request.cmd = "PING" ->
              IF n = 0 THEN SimpleStr("PONG")
              ELSE IF n = 1 THEN BulkStr(request.args[1])
              ELSE RespError("ERR")
         [] request.cmd = "GET" ->
              IF n # 1 THEN RespError("ERR")
              ELSE LET v == get(request.args[1])
                   IN IF v.tag = "Some" THEN BulkStr(Utf8Lossy(v.val))
                      ELSE IF v.tag = "None" THEN NullBulkStr
                      ELSE RespError("STOREERR")
         [] request.cmd = "SET" -> IF n < 2 THEN RespError("ERR") ELSE stored
         [] request.cmd = "DEL" -> IF n # 1 THEN RespError("ERR") ELSE stored
         [] request.cmd = "COMPACT" -> IF n # 0 THEN RespError("ERR") ELSE stored
         [] request.cmd = "KEYS" ->
              IF n # 1 THEN RespError("ERR")
              ELSE LET pattern == request.args[1]
                       resp == IF EndsWith(pattern, Star)
                               THEN KeysWithPrefix(keys, TrimEndMatches(pattern, Star))
                               ELSE << >>
                   IN IF Len(resp) = 0 THEN NullArray ELSE RespArray(resp)
         [] request.cmd = "DBSIZE" ->
              IF n # 0 THEN RespError("ERR") ELSE RespInteger

\* C38: no well-formed command (PING, SET, GET, DEL, KEYS, DBSIZE, COMPACT
\* with any argument values, the empty string included) makes
\* process_request return an empty BulkStr or an empty Array, the replies
\* on which RespValue::serialize panics.
RepliesNonEmpty ==
    st = "open" =>
        \A request \in Requests, ok \in BOOLEAN :
            LET r == process_request(request, ok)
            IN /\ ~(r.tag = "BulkStr" /\ r.str = << >>)
               /\ ~(r.tag = "Array" /\ r.items = << >>)

\* the part of C38 that the code keeps: no reply is an empty Array
ArrayRepliesNonEmpty ==
    st = "open" =>
        \A request \in Requests, ok \in BOOLEAN :
            LET r == process_request(request, ok)
            IN ~(r.tag = "Array" /\ r.items = << >>)


(***************************************************************************)
(* The iterators of recovery (data.rs 286-304, hint.rs 148-163).           *)
(***************************************************************************)
\* EntryIter::next of a data file: the record that bincode decodes at the
\* read position and the position after it; None when no complete record
\* starts there (end of file, partial tail)
DataIterNext(f, pos) ==
    LET r == ReadAt(f, pos)
    IN IF r.ok THEN [some |-> TRUE, pos |-> pos + EncodedSize(r.rec)]
       ELSE [some |-> FALSE, pos |-> pos]

RECURSIVE HintSizes(_, _)
\* the bytes of the first n entries of a hint file
HintSizes(ents, n) ==
    IF n = 0 THEN 0 ELSE HintSizes(ents, n - 1) + HintEncodedSize(ents[n])

\* EntryIter::next of a hint file that does not store the position it
\* reached: the next call decodes at the same offset
HintIterNextNoAdvance(h, offset) ==
    IF \E i \in 1..Len(h.ents) : HintSizes(h.ents, i - 1) = offset
    THEN [some |-> TRUE, pos |-> offset]
    ELSE [some |-> FALSE, pos |-> offset]

\* EntryIter::next of a hint file: seek to self.offset, decode one entry,
\* self.offset becomes the position after it; None when no complete entry
\* starts there
HintIterNext(h, offset) ==
    IF \E i \in 1..Len(h.ents) : HintSizes(h.ents, i - 1) = offset
    THEN LET i == CHOOSE j \in 1..Len(h.ents) : HintSizes(h.ents, j - 1) = offset
         IN [some |-> TRUE, pos |-> offset + HintEncodedSize(h.ents[i])]
    ELSE [some |-> FALSE, pos |-> offset]

\* the result of a loop over an iterator: whether next returned None within
\* the calls it was given, whether every entry moved the position forward,
\* the number of entries yielded and the position reached
Drained(stopped, forward, count, pos) ==
    [stopped |-> stopped, forward |-> forward, count |-> count, pos |-> pos]

RECURSIVE DrainData(_, _, _, _)
\* `for entry in df.entry_iter()` from position pos, at most `fuel` entries
DrainData(f, pos, fuel, n) ==
    LET nx == DataIterNext(f, pos)
    IN IF ~nx.some THEN Drained(TRUE, TRUE, n, pos)
       ELSE IF nx.pos <= pos THEN Drained(FALSE, FALSE, n + 1, nx.pos)
       ELSE IF fuel = 0 THEN Drained(FALSE, TRUE, n + 1, nx.pos)
       ELSE DrainData(f, nx.pos, fuel - 1, n + 1)

RECURSIVE DrainHint(_, _, _, _)
\* `for entry in hint_file.entry_iter()` from offset pos, at most `fuel`
\* entries
DrainHint(h, pos, fuel, n) ==
    LET nx == HintIterNext(h, pos)
    IN IF ~nx.some THEN Drained(TRUE, TRUE, n, pos)
       ELSE IF nx.pos <= pos THEN Drained(FALSE, FALSE, n + 1, nx.pos)
       ELSE IF fuel = 0 THEN Drained(FALSE, TRUE, n + 1, nx.pos)
       ELSE DrainHint(h, nx.pos, fuel - 1, n + 1)

AppendAtEnd ==
    [][(st = "file" /\ last'.op = "write")
          => /\ keydir'[last'.key].offset = FileLen(dfile[active.id])
             /\ active'.size = FileLen(dfile'[active.id])]_vars

\* the same seen from the store: the record that an accepted set appends is
\* at the offset the keydir is given, and the cached size of the active file
\* is its length (it holds as long as every active file is created empty)
AppendOffsetReal ==
    [][(st = "open" /\ last'.op = "set" /\ last'.res = "Ok")
          => LET e == keydir'[last'.key]
                 f == dfile'[active'.id]
             IN /\ e.segment_id = active'.id
                /\ e.offset = OffsetOf(f.recs, Len(f.recs))
                /\ active'.size = FileLen(f)]_vars

====
